---- MODULE Spec2Model ----
(***************************************************************************)
(* A model of the architecture-graph pipeline of aiclouddesigner:          *)
(*   - the intent classifier            (src/src/utils/intentDetection.ts) *)
(*   - the chat panel: handleSubmit and the graph editor                   *)
(*     handleArchitectureModification   (src/src/components/ChatPanel.tsx) *)
(*   - the application state and handleGenerate        (src/src/App.tsx)   *)
(*   - the generate-architecture endpoint and its session store            *)
(*                          (src/src/supabase/functions/server/index.tsx)  *)
(*                                                                         *)
(* JavaScript strings are TLA+ strings; toLowerCase, includes, startsWith  *)
(* are computed character by character.  A property that is absent         *)
(* (undefined) is the string Undefined; `a || b` is Or(a, b).              *)
(***************************************************************************)
EXTENDS Integers, Sequences, FiniteSets, TLC

(***************************************************************************)
(* State                                                                   *)
(***************************************************************************)

VARIABLES
    apiKey,         \* import.meta.env.VITE_OPENAI_API_KEY, or Undefined
    serverApiKey,   \* Deno.env.get("OPENAI_API_KEY"), or Undefined
    architecture,   \* App state: the current architecture, or NullArchitecture
    isLoading,      \* App state: the busy flag
    error,          \* App state: the error banner's text, "null" when none
    inflight,       \* the handleSubmit / handleGenerate invocations that are
                    \* suspended at an await, each with the `architecture` its
                    \* closure captured when the utterance was submitted
    submits,        \* utterances submitted so far
    lastEdit,       \* the edit resolved last: the graph it was applied to,
                    \* the plan as received, and the handler's locals
    kv,             \* the server's session store: key -> stored graph
    serverNow,      \* the server's Date.now()
    lastCall,       \* the classifier call made last, with its result
    patternResults  \* the direct calls of detectIntentWithPatterns so far, in
                    \* order: arguments, whether an architecture was loaded
                    \* at the call, and the result

vars ==
    <<apiKey, serverApiKey, architecture, isLoading, error, inflight, submits,
      lastEdit, kv, serverNow, lastCall, patternResults>>

(***************************************************************************)
(* JavaScript values and string primitives                                 *)
(***************************************************************************)

\* An absent property / the value undefined.
Undefined == "<undefined>"

\* JavaScript truthiness of a string-or-undefined value.
Falsy(x) == x = Undefined \/ x = ""

\* a || b
Or(a, b) == IF Falsy(a) THEN b ELSE a

UpperCaseLetters == "ABCDEFGHIJKLMNOPQRSTUVWXYZ"
LowerCaseLetters == "abcdefghijklmnopqrstuvwxyz"

CharAt(s, i) == SubSeq(s, i, i)

\* String.prototype.toLowerCase on one character.
lowerCaseOf ==
    [c \in {CharAt(UpperCaseLetters, i) : i \in 1..26} |->
        CharAt(LowerCaseLetters, CHOOSE i \in 1..26 : CharAt(UpperCaseLetters, i) = c)]

toLowerCaseChar(c) == IF c \in DOMAIN lowerCaseOf THEN lowerCaseOf[c] ELSE c

RECURSIVE toLowerCase(_)
toLowerCase(s) ==
    IF Len(s) = 0 THEN ""
    ELSE toLowerCaseChar(CharAt(s, 1)) \o toLowerCase(SubSeq(s, 2, Len(s)))

\* String.prototype.includes
includes(s, p) ==
    \E i \in 0..(Len(s) - Len(p)) : SubSeq(s, i + 1, i + Len(p)) = p

\* String.prototype.startsWith
startsWith(s, p) == Len(p) <= Len(s) /\ SubSeq(s, 1, Len(p)) = p

(***************************************************************************)
(* The graph: nodes, edges, the architecture                               *)
(***************************************************************************)

\* A node as the server returns it and as `add` creates it: id, label,
\* product, type, config.  `data` is the nested object the `modify` branch
\* writes (<<>> when the node has no `data` property, else a one-element
\* sequence holding it).  config is an opaque bag, named by a token.
Node(id, label, product, type, config) ==
    [id |-> id, label |-> label, product |-> product, type |-> type,
     config |-> config, data |-> <<>>]

\* An edge carries source, target and label.  The presentational fields a new
\* edge also gets (id, type, animated, style) are read by no operation here.
Edge(source, target, label) ==
    [source |-> source, target |-> target, label |-> label]

\* App state `architecture` is null before the first generation.
NullArchitecture == [id |-> "null", nodes |-> <<>>, edges |-> <<>>]

Range(seq) == {seq[i] : i \in 1..Len(seq)}

\* Array.prototype.filter is SelectSeq.
NodeIdsOf(nodes) == {nodes[i].id : i \in 1..Len(nodes)}

(***************************************************************************)
(* handleArchitectureModification: the model's modification plan           *)
(***************************************************************************)

\* Lines 259-272: the own properties of azureServiceMap.
azureServiceMap ==
    [k \in {"power bi", "powerbi", "redis", "cache", "storage", "blob storage",
            "sql database", "database", "application insights", "insights",
            "key vault", "cosmos db"} |->
        CASE k \in {"power bi", "powerbi"} -> "Power BI"
          [] k \in {"redis", "cache"} -> "Azure Redis Cache"
          [] k \in {"storage", "blob storage"} -> "Azure Blob Storage"
          [] k \in {"sql database", "database"} -> "Azure SQL Database"
          [] k \in {"application insights", "insights"} -> "Azure Application Insights"
          [] k = "key vault" -> "Azure Key Vault"
          [] k = "cosmos db" -> "Azure Cosmos DB"]

\* Lines 257-282: the product name after "Fix Azure service naming".
fixAzureNaming(product) ==
    LET normalizedProduct == toLowerCase(product) IN
    IF /\ ~Falsy(product)
       /\ ~startsWith(normalizedProduct, "azure")
       /\ ~includes(normalizedProduct, "microsoft")
    THEN IF normalizedProduct \in DOMAIN azureServiceMap
         THEN azureServiceMap[normalizedProduct]
         ELSE IF ~includes(normalizedProduct, "power bi")
              THEN "Azure " \o product
              ELSE product
    ELSE product

\* Lines 249-283: the forEach that rewrites each modification in place
\* before it is applied.
normalizeModification(mod) ==
    LET incomplete == Falsy(mod.label) \/ Falsy(mod.product)
        label1 == IF incomplete THEN Or(mod.label, "New Service") ELSE mod.label
        product1 == IF incomplete
                    THEN Or(mod.product, Or(label1, "Azure Service"))
                    ELSE mod.product
    IN [mod EXCEPT !.label = label1, !.product = fixAzureNaming(product1)]

\* Lines 305-319: the node an `add` creates; `now` is what Date.now() returns.
DefaultConfig == "default-config"

generatedNodeId(now) == "node-" \o ToString(now)

\* An `add` that copies the payload's fields without defaults.
newNodeBare(mod, now) ==
    [id |-> mod.nodeId, label |-> mod.label, product |-> mod.product,
     type |-> mod.type, config |-> mod.config, data |-> <<>>]

newNode(mod, now) ==
    [id |-> Or(mod.nodeId, generatedNodeId(now)),
     label |-> Or(mod.label, "New Service"),
     product |-> Or(mod.product, "Azure Service"),
     type |-> Or(mod.type, "service"),
     config |-> IF mod.config = Undefined THEN DefaultConfig ELSE mod.config,
     data |-> <<>>]

\* Line 327: findIndex(n => n.id === mod.nodeId); 0 stands for -1.
findIndex(nodes, nodeId) ==
    IF \E i \in 1..Len(nodes) : nodes[i].id = nodeId
    THEN CHOOSE i \in 1..Len(nodes) :
            /\ nodes[i].id = nodeId
            /\ \A j \in 1..(i - 1) : nodes[j].id # nodeId
    ELSE 0

\* Lines 329-337: evaluating the object literal reads
\* updatedNodes[nodeIndex].data.label / .product / .type only where the
\* payload's own field is falsy; on a node without `data` such a read is a
\* TypeError.
modifyThrows(node, mod) ==
    /\ node.data = <<>>
    /\ Falsy(mod.label) \/ Falsy(mod.product) \/ Falsy(mod.type)

\* A modify that takes the node's id from the payload's label.
modifiedNodeRenamed(node, mod) == [node EXCEPT !.id = mod.label]

\* Lines 329-337: the replaced node: every top-level field is spread from the
\* old node, and label/product/type are written into `data`.
modifiedNode(node, mod) ==
    LET old == IF node.data = <<>>
               THEN [label |-> Undefined, product |-> Undefined, type |-> Undefined]
               ELSE node.data[1]
    IN [node EXCEPT !.data = <<[label |-> Or(mod.label, old.label),
                                product |-> Or(mod.product, old.product),
                                type |-> Or(mod.type, old.type)]>>]

\* Lines 295-340: "Process node modifications", in list order.  times[i] is
\* the value Date.now() returns while modification i is processed.  The
\* result records whether a step threw and the locals at that point.
RECURSIVE processModifications(_, _, _, _)
processModifications(mods, times, updatedNodes, updatedEdges) ==
    IF mods = <<>>
    THEN [threw |-> FALSE, nodes |-> updatedNodes, edges |-> updatedEdges]
    ELSE
      LET mod == Head(mods) IN
      IF mod.action = "add"
      THEN processModifications(Tail(mods), Tail(times),
                                Append(updatedNodes, newNode(mod, Head(times))),
                                updatedEdges)
      ELSE IF mod.action = "remove"
      THEN LET keepNode(n) == n.id # mod.nodeId
               keepEdge(e) == e.source # mod.nodeId /\ e.target # mod.nodeId
           IN processModifications(Tail(mods), Tail(times),
                                   SelectSeq(updatedNodes, keepNode),
                                   SelectSeq(updatedEdges, keepEdge))
      ELSE IF mod.action = "modify"
      THEN LET nodeIndex == findIndex(updatedNodes, mod.nodeId) IN
           IF nodeIndex = 0
           THEN processModifications(Tail(mods), Tail(times), updatedNodes, updatedEdges)
           ELSE IF modifyThrows(updatedNodes[nodeIndex], mod)
           THEN [threw |-> TRUE, nodes |-> updatedNodes, edges |-> updatedEdges]
           ELSE processModifications(Tail(mods), Tail(times),
                    [updatedNodes EXCEPT ![nodeIndex] = modifiedNode(@, mod)],
                    updatedEdges)
      ELSE processModifications(Tail(mods), Tail(times), updatedNodes, updatedEdges)

\* A validation that looks at the source only.
edgeEndpointsExistSourceOnly(updatedNodes, edge) ==
    edge.source \in NodeIdsOf(updatedNodes)

\* Lines 346-357: both endpoints of a candidate edge are ids of updatedNodes.
edgeEndpointsExist(updatedNodes, edge) ==
    /\ edge.source \in NodeIdsOf(updatedNodes)
    /\ edge.target \in NodeIdsOf(updatedNodes)

\* Lines 343-370: "Process new edges": a candidate with a missing endpoint is
\* skipped, the others are appended in order.
RECURSIVE processNewEdges(_, _, _)
processNewEdges(newEdges, updatedNodes, updatedEdges) ==
    IF newEdges = <<>> THEN updatedEdges
    ELSE LET edge == Head(newEdges) IN
         processNewEdges(Tail(newEdges), updatedNodes,
            IF edgeEndpointsExist(updatedNodes, edge)
            THEN Append(updatedEdges, Edge(edge.source, edge.target, Or(edge.label, "")))
            ELSE updatedEdges)

\* Lines 375-382: the test of the final "FILTER OUT USER NODES" pass.
isUserNode(node) ==
    \/ node.type = "user"
    \/ /\ ~Falsy(node.product)
       /\ includes(toLowerCase(node.product), "user")
    \/ /\ ~Falsy(node.label)
       /\ \/ includes(toLowerCase(node.label), "user")
          \/ includes(toLowerCase(node.label), "scientist")
          \/ includes(toLowerCase(node.label), "developer")
          \/ includes(toLowerCase(node.label), "admin")

\* Lines 391-403: edges are re-checked only when the pass removed a node.
\* A final pass that removes the human-actor nodes and leaves the edges.
filterOrphanedEdgesNever(originalNodeCount, updatedNodes, updatedEdges) == updatedEdges

filterOrphanedEdges(originalNodeCount, updatedNodes, updatedEdges) ==
    IF originalNodeCount # Len(updatedNodes)
    THEN LET nodeIds == NodeIdsOf(updatedNodes)
             keepEdge(e) == e.source \in nodeIds /\ e.target \in nodeIds
         IN SelectSeq(updatedEdges, keepEdge)
    ELSE updatedEdges

\* An editor that processes the new edges before the node modifications.
applyNewEdgesFirst(arch, plan, times) ==
    LET edges0 == IF plan.hasNewEdges
                  THEN processNewEdges(plan.newEdges, arch.nodes, arch.edges)
                  ELSE arch.edges
        step1 == processModifications(plan.modifications, times, arch.nodes, edges0)
        keepNode(n) == ~isUserNode(n)
        nodes3 == SelectSeq(step1.nodes, keepNode)
    IN IF step1.threw
       THEN [threw |-> TRUE, nodes |-> step1.nodes, edges |-> step1.edges]
       ELSE [threw |-> FALSE, nodes |-> nodes3,
             edges |-> filterOrphanedEdges(Len(step1.nodes), nodes3, step1.edges)]

\* Lines 290-410: "Apply modifications to architecture" on the architecture
\* the handler closed over.  plan.modifications are already normalized.
\* The result is the updatedArchitecture, or threw = TRUE with the locals
\* as they were when a step raised.
applyModificationPlan(arch, plan, times) ==
    LET step1 == processModifications(plan.modifications, times, arch.nodes, arch.edges) IN
    IF step1.threw
    THEN [threw |-> TRUE, nodes |-> step1.nodes, edges |-> step1.edges]
    ELSE
      LET edges2 == IF plan.hasNewEdges
                    THEN processNewEdges(plan.newEdges, step1.nodes, step1.edges)
                    ELSE step1.edges
          keepNode(n) == ~isUserNode(n)
          nodes3 == SelectSeq(step1.nodes, keepNode)
          edges3 == filterOrphanedEdges(Len(step1.nodes), nodes3, edges2)
      IN [threw |-> FALSE, nodes |-> nodes3, edges |-> edges3]

(***************************************************************************)
(* Intent classification (intentDetection.ts)                              *)
(***************************************************************************)

\* enum ChatIntent, in declaration order; `scores` is built in this order and
\* Object.entries walks it in this order.
GENERATE_ARCHITECTURE == "generate_architecture"
ASK_QUESTION == "ask_question"
EXPLAIN_COMPONENT == "explain_component"
MODIFY_ARCHITECTURE == "modify_architecture"
GENERAL_CHAT == "general_chat"

ChatIntent ==
    <<GENERATE_ARCHITECTURE, ASK_QUESTION, EXPLAIN_COMPONENT,
      MODIFY_ARCHITECTURE, GENERAL_CHAT>>

INTENT_PATTERNS ==
    [intent \in Range(ChatIntent) |->
        CASE intent = GENERATE_ARCHITECTURE ->
               <<"create", "build", "design", "develop", "make", "set up", "setup",
                 "i need", "i want", "build me", "create me", "design me",
                 "architecture", "system", "application", "platform", "solution",
                 "web app", "api", "database", "serverless", "microservice">>
          [] intent = ASK_QUESTION ->
               <<"what is", "what are", "how does", "how do", "explain", "tell me about",
                 "what", "how", "why", "when", "where", "which", "who",
                 "?", "question", "help me understand", "can you explain">>
          [] intent = EXPLAIN_COMPONENT ->
               <<"this component", "this service", "this resource", "the storage",
                 "the database", "the api", "the function", "explain this",
                 "what does this do", "how does this work", "tell me about this",
                 "describe this">>
          [] intent = MODIFY_ARCHITECTURE ->
               <<"add", "remove", "delete", "change", "modify", "update", "replace",
                 "swap", "connect", "disconnect", "edit", "alter", "adjust",
                 "include", "exclude", "integrate", "remove this", "add a">>
          [] intent = GENERAL_CHAT ->
               <<"hello", "hi", "hey", "thanks", "thank you", "good", "great",
                 "awesome", "perfect", "nice", "cool", "ok", "okay">>]

\* Scores are kept in tenths (a score of 1 is 10) so that `*= 0.1` stays an
\* integer; confidences are kept in thirtieths (1.0 is 30, 0.5 is 15,
\* 0.3 is 9) so that `maxScore / 3` does.
Tenths(n) == 10 * n

\* Lines 170-176: the number of patterns of `intent` the message includes.
patternHits(lowerMessage, intent) ==
    Cardinality({i \in 1..Len(INTENT_PATTERNS[intent]) :
                    includes(lowerMessage, INTENT_PATTERNS[intent][i])})

\* An adjustment that consults the application's state instead of the
\* argument.
contextAdjustedByState(intent, hits, hasArchitecture) ==
    IF architecture.id = "null" /\ intent \in {EXPLAIN_COMPONENT, MODIFY_ARCHITECTURE}
    THEN hits
    ELSE Tenths(hits)

\* Lines 179-182: the "context-based adjustment" of one intent's score.
contextAdjusted(intent, hits, hasArchitecture) ==
    IF ~hasArchitecture /\ intent \in {EXPLAIN_COMPONENT, MODIFY_ARCHITECTURE}
    THEN hits          \* hits * 0.1, in tenths
    ELSE Tenths(hits)

\* Lines 185-187: the boost for question marks.
QuestionBonus == 2

\* A boost that a question mark gives to every intent.
questionBoostAll(intent, lowerMessage) ==
    IF includes(lowerMessage, "?")
    THEN Tenths(QuestionBonus)
    ELSE 0

questionBoost(intent, lowerMessage) ==
    IF intent = ASK_QUESTION /\ includes(lowerMessage, "?")
    THEN Tenths(QuestionBonus)
    ELSE 0

\* Lines 158-187: the scores object, in tenths.
intentScores(message, hasArchitecture) ==
    LET lowerMessage == toLowerCase(message) IN
    [intent \in Range(ChatIntent) |->
        contextAdjusted(intent, patternHits(lowerMessage, intent), hasArchitecture)
          + questionBoost(intent, lowerMessage)]

Max(S) == CHOOSE m \in S : \A x \in S : x <= m
Min2(a, b) == IF a <= b THEN a ELSE b
Max2(a, b) == IF a >= b THEN a ELSE b

\* A choice that takes the last intent, in enumeration order, whose score is
\* the maximum.
bestIntentLast(scores, maxScore) ==
    ChatIntent[CHOOSE i \in 1..Len(ChatIntent) :
                  /\ scores[ChatIntent[i]] = maxScore
                  /\ \A j \in (i + 1)..Len(ChatIntent) : scores[ChatIntent[j]] # maxScore]

\* Line 191: Object.entries(scores).find(([, score]) => score === maxScore):
\* the first intent, in enumeration order, whose score is the maximum.
bestIntentOf(scores, maxScore) ==
    ChatIntent[CHOOSE i \in 1..Len(ChatIntent) :
                  /\ scores[ChatIntent[i]] = maxScore
                  /\ \A j \in 1..(i - 1) : scores[ChatIntent[j]] # maxScore]

\* Line 198: maxScore > 0 ? Math.min(maxScore / 3, 1) : 0.3, in thirtieths.
ConfidenceDivisor == 3

patternConfidence(maxScore) ==
    IF maxScore > 0
    THEN Min2((maxScore * 30) \div (10 * ConfidenceDivisor), 30)
    ELSE 9

\* Lines 154-201.  bestIntent is never undefined (scores always has five
\* entries, one of which equals the maximum), so the `||` default of line 194
\* never applies.
patternDetection(message, hasArchitecture) ==
    LET scores == intentScores(message, hasArchitecture)
        maxScore == Max({scores[i] : i \in Range(ChatIntent)})
    IN [intent |-> bestIntentOf(scores, maxScore),
        confidence |-> patternConfidence(maxScore),
        explanation |-> "Pattern-based detection (score: " \o ToString(maxScore) \o "/10)"]

\* What the user types: the messages the classifier is called with.
Utterances ==
    {"Build a web app with a database", "add a cache", "what is Azure?",
     "explain this component", "hello", "zzz", "how to add"}

\* detectIntentWithPatterns over the messages of the model, computed once
\* per (message, hasArchitecture).
patternDetections ==
    [message \in Utterances, hasArchitecture \in BOOLEAN |->
        patternDetection(message, hasArchitecture)]

detectIntentWithPatterns(message, hasArchitecture) ==
    patternDetections[message, hasArchitecture]

\* The `scores` object of detectIntentWithPatterns when line 190 reads it,
\* computed once per (message, hasArchitecture).
patternScores ==
    [message \in Utterances, hasArchitecture \in BOOLEAN |->
        intentScores(message, hasArchitecture)]

\* Line 115: .replace(/[\s-]/g, '_')
RECURSIVE replaceSeparators(_)
replaceSeparators(s) ==
    IF Len(s) = 0 THEN ""
    ELSE (IF CharAt(s, 1) \in {" ", "-", "\t", "\n"} THEN "_" ELSE CharAt(s, 1))
            \o replaceSeparators(SubSeq(s, 2, Len(s)))

\* Lines 119-131: intentMapping is an object literal, so a lookup finds its
\* own properties and, failing that, the properties every object inherits
\* from Object.prototype (functions, hence truthy).
ObjectPrototypeKeys ==
    {"constructor", "toString", "valueOf", "hasOwnProperty", "isPrototypeOf",
     "propertyIsEnumerable", "toLocaleString", "__proto__"}

intentMapping(key) ==
    IF key \in Range(ChatIntent) THEN key
    ELSE IF key \in {"GENERATE_ARCHITECTURE", "ASK_QUESTION", "EXPLAIN_COMPONENT",
                     "MODIFY_ARCHITECTURE", "GENERAL_CHAT"}
         THEN toLowerCase(key)
    ELSE IF key \in ObjectPrototypeKeys THEN "Object.prototype." \o key
    ELSE Undefined

\* Lines 100-143 once the HTTP call has produced `outcome`: the value the try
\* block returns, or threw = TRUE when one of its steps raises.
\*   outcome.kind: "network_error"  fetch rejected
\*                 "http_error"     !response.ok
\*                 "empty_content"  no choices[0].message.content
\*                 "malformed_json" JSON.parse throws
\*                 "json_null"      JSON.parse returns null
\*                 "json"           an object; intentType is typeof result.intent,
\*                                  intent its value as a property key;
\*                                  confidence in thirtieths, 0 when it is
\*                                  absent or zero (both falsy)
classifyWithModel(outcome) ==
    IF outcome.kind # "json"
    THEN [threw |-> TRUE, intent |-> Undefined, confidence |-> 0, explanation |-> Undefined]
    ELSE
      LET normalizedIntent ==
              IF outcome.intentType = "string"
              THEN replaceSeparators(toLowerCase(outcome.intent))
              ELSE outcome.intent
          finalIntent == Or(intentMapping(normalizedIntent), intentMapping(outcome.intent))
      IN IF Falsy(finalIntent)
         THEN [threw |-> TRUE, intent |-> Undefined, confidence |-> 0,
               explanation |-> Undefined]
         ELSE [threw |-> FALSE,
               intent |-> finalIntent,
               \* Math.min(Math.max(result.confidence || 0.5, 0), 1)
               confidence |-> Min2(Max2(IF outcome.confidence = 0 THEN 15
                                        ELSE outcome.confidence, 0), 30),
               explanation |-> outcome.explanation]

\* Lines 48-149: detectIntentWithAI; whatever the try block throws is caught
\* and answered by the pattern fallback.
detectIntentWithAI(message, hasArchitecture, outcome) ==
    LET r == classifyWithModel(outcome) IN
    IF r.threw
    THEN detectIntentWithPatterns(message, hasArchitecture)
    ELSE [intent |-> r.intent, confidence |-> r.confidence, explanation |-> r.explanation]

\* Lines 206-216: detectIntent; `key` is the apiKey argument, the
\* configured key or Undefined.
detectIntent(message, hasArchitecture, key, outcome) ==
    IF ~Falsy(key)
    THEN detectIntentWithAI(message, hasArchitecture, outcome)
    ELSE detectIntentWithPatterns(message, hasArchitecture)

(***************************************************************************)
(* handleArchitectureModification: from the HTTP response to the plan      *)
(***************************************************************************)

isWhitespace(c) == c \in {" ", "\n", "\t", "\r"}

\* String.prototype.trim
RECURSIVE trimStart(_)
trimStart(s) ==
    IF Len(s) > 0 /\ isWhitespace(CharAt(s, 1))
    THEN trimStart(SubSeq(s, 2, Len(s)))
    ELSE s

RECURSIVE trimEnd(_)
trimEnd(s) ==
    IF Len(s) > 0 /\ isWhitespace(CharAt(s, Len(s)))
    THEN trimEnd(SubSeq(s, 1, Len(s) - 1))
    ELSE s

trim(s) == trimEnd(trimStart(s))

\* A TLA+ string cannot hold the backquote character: the code-fence marker
\* of three backquotes is written as three apostrophes.
Fence == "'''"

\* .replace(/^<fence>\s*/, '')
stripLeading(s, fence) ==
    IF startsWith(s, fence)
    THEN trimStart(SubSeq(s, Len(fence) + 1, Len(s)))
    ELSE s

\* .replace(/\s*<fence>$/, '')
stripTrailingFence(s) ==
    IF Len(s) >= 3 /\ SubSeq(s, Len(s) - 2, Len(s)) = Fence
    THEN trimEnd(SubSeq(s, 1, Len(s) - 3))
    ELSE s

\* String.prototype.indexOf / lastIndexOf for one character, 0-based, -1 when
\* absent.
indexOf(s, c) ==
    IF \E i \in 1..Len(s) : CharAt(s, i) = c
    THEN (CHOOSE i \in 1..Len(s) :
            CharAt(s, i) = c /\ \A j \in 1..(i - 1) : CharAt(s, j) # c) - 1
    ELSE -1

lastIndexOf(s, c) ==
    IF \E i \in 1..Len(s) : CharAt(s, i) = c
    THEN (CHOOSE i \in 1..Len(s) :
            CharAt(s, i) = c /\ \A j \in (i + 1)..Len(s) : CharAt(s, j) # c) - 1
    ELSE -1

\* Lines 230-239: "Clean JSON extraction".
cleanJsonOf(aiResponse) ==
    LET c1 == stripTrailingFence(stripLeading(trim(aiResponse), Fence \o "json"))
        c2 == stripTrailingFence(stripLeading(c1, Fence))
        openBrace == indexOf(c2, "{")
        closeBrace == lastIndexOf(c2, "}")
    IN IF openBrace # -1 /\ closeBrace # -1 /\ closeBrace > openBrace
       THEN SubSeq(c2, openBrace + 1, closeBrace + 1)
       ELSE c2

\* The text of the JSON object the model produced stands as JsonObjectText
\* inside the content; the object it denotes travels beside the content, in
\* response.json.  JSON.parse (line 242) yields that object exactly when the
\* cleaned text is the object's text, white space around it allowed, and
\* throws a SyntaxError on any other text of the contents modelled here.
JsonObjectText == "{#}"

jsonParses(cleanJson) == trim(cleanJson) = JsonObjectText

\* Lines 220-288: what the handler has after the parse/validate block.
\*   response.kind: "network_error"  fetch rejected
\*                  "http_error"     !response.ok
\*                  "ok"             content is choices[0].message.content and
\*                                   json the object written in it:
\*      json.hasModifications  modifications is present and an array
\*      json.modifications, json.hasNewEdges, json.newEdges
parseModificationPlan(response) ==
    IF response.kind # "ok" THEN [threw |-> TRUE, plan |-> response.json]
    ELSE IF ~jsonParses(cleanJsonOf(response.content))
    THEN [threw |-> TRUE, plan |-> response.json]
    ELSE IF ~response.json.hasModifications
    THEN [threw |-> TRUE, plan |-> response.json]
    ELSE [threw |-> FALSE,
          plan |-> [response.json EXCEPT !.modifications =
                      [i \in 1..Len(response.json.modifications) |->
                          normalizeModification(response.json.modifications[i])]]]

\* Lines 220-410 as a whole: the updatedArchitecture's nodes and edges, or
\* threw = TRUE (control is in the catch block of line 420) with the locals
\* updatedNodes / updatedEdges as they stood.
modificationOutcome(arch, response, times) ==
    LET parsed == parseModificationPlan(response) IN
    IF parsed.threw
    THEN [threw |-> TRUE, applying |-> FALSE, nodes |-> arch.nodes, edges |-> arch.edges]
    ELSE LET applied == applyModificationPlan(arch, parsed.plan, times) IN
         [threw |-> applied.threw, applying |-> TRUE,
          nodes |-> applied.nodes, edges |-> applied.edges]

\* A handler that publishes its locals however it ended.
callsOnArchitectureUpdateAlways(outcome) == TRUE

\* Line 412 is reached, and onArchitectureUpdate called, exactly when nothing
\* before it threw.
callsOnArchitectureUpdate(outcome) == ~outcome.threw

(***************************************************************************)
(* Bounds and inputs                                                       *)
(***************************************************************************)

\* Utterances submitted in one behaviour of the session.
MaxSubmits == 3

\* Modifications in one plan, candidate edges in one plan's newEdges.
MaxMods == 2
MaxNewEdges == 2

\* Values Date.now() takes on the client while one plan is applied, and on
\* the server over a behaviour.
MaxClock == 2

\* Sequences over S of length at most n.
SeqUpTo(S, n) == UNION {[1..k -> S] : k \in 0..n}

\* Graphs the synthesis model may answer with.  The server passes the
\* model's nodes and edges on as they are, so each is also a graph the
\* session can hold after one generation.
nodeApi == Node("api", "API Gateway", "Azure API Management", "gateway", "cfg-api")
nodeDb == Node("db", "Database", "Azure SQL Database", "database", "cfg-db")
nodeCache == Node("cache", "Redis Cache", "Azure Cache for Redis", "database", "cfg-cache")
\* index.tsx line 94, the prompt's own example node.
nodeUsers == Node("users", "End Users", "User", "user", Undefined)

GraphApiDb ==
    [nodes |-> <<nodeApi, nodeDb>>,
     edges |-> <<Edge("api", "db", "SQL Queries")>>]
GraphChain ==
    [nodes |-> <<nodeApi, nodeCache, nodeDb>>,
     edges |-> <<Edge("api", "cache", "Cache Lookups"), Edge("cache", "db", "SQL Queries")>>]
GraphWithUsers ==
    [nodes |-> <<nodeUsers, nodeApi>>,
     edges |-> <<Edge("users", "api", "HTTPS Requests")>>]
GraphDangling ==
    [nodes |-> <<nodeApi, nodeDb>>,
     edges |-> <<Edge("api", "db", "SQL Queries"), Edge("api", "ghost", "Events")>>]

ModelGraphs == {GraphApiDb, GraphChain, GraphWithUsers, GraphDangling}

\* One entry of the edit model's `modifications`.
Modification(action, nodeId, label, product, type, config) ==
    [action |-> action, nodeId |-> nodeId, label |-> label, product |-> product,
     type |-> type, config |-> config]

\* Payloads: every field given; no field given; a human actor by its label;
\* a human actor by its product only.
Payloads ==
    {<<"Redis Cache", "redis", "database", "cfg-redis">>,
     <<Undefined, Undefined, Undefined, Undefined>>,
     <<"Admin Console", Undefined, "other", Undefined>>,
     <<"Portal", "Developer Portal", "other", "cfg-portal">>}

WithPayload(action, nodeId, p) == Modification(action, nodeId, p[1], p[2], p[3], p[4])

Modifications ==
    {WithPayload("remove", id, <<Undefined, Undefined, Undefined, Undefined>>) :
        id \in {"api", "cache", "ghost"}}
    \cup {WithPayload("add", "cache", p) : p \in Payloads}
    \cup {WithPayload("add", id, <<"Redis Cache", "redis", "database", "cfg-redis">>) :
        id \in {"api", Undefined}}
    \cup {WithPayload("add", Undefined, <<Undefined, Undefined, Undefined, Undefined>>)}
    \cup {WithPayload("modify", id, p) :
        id \in {"api", "cache"},
        p \in {<<"Redis Cache", "redis", "database", "cfg-redis">>,
               <<Undefined, Undefined, Undefined, Undefined>>}}

CandidateEdges ==
    {Edge("api", "cache", "Cache Lookups"), Edge("cache", "db", Undefined),
     Edge("api", "ghost", "Events")}

\* The object written in the edit model's content.
PlanJson(hasModifications, modifications, hasNewEdges, newEdges) ==
    [hasModifications |-> hasModifications, modifications |-> modifications,
     hasNewEdges |-> hasNewEdges, newEdges |-> newEdges]

NoJson == PlanJson(FALSE, <<>>, FALSE, <<>>)

EditResponse(kind, content, json) == [kind |-> kind, content |-> content, json |-> json]

\* Every plan within the bounds, as raw JSON text.
PlanResponses ==
    {EditResponse("ok", JsonObjectText, PlanJson(TRUE, mods, TRUE, newEdges)) :
        mods \in SeqUpTo(Modifications, MaxMods),
        newEdges \in SeqUpTo(CandidateEdges, MaxNewEdges)}
    \cup {EditResponse("ok", JsonObjectText, PlanJson(TRUE, mods, FALSE, <<>>)) :
        mods \in SeqUpTo(Modifications, 1)}

\* The ways an edit's model call ends without a plan.
FailedEditResponses ==
    {EditResponse("network_error", "", NoJson),
     EditResponse("http_error", "", NoJson),
     EditResponse("ok", "I am sorry, I cannot do that.", NoJson),
     EditResponse("ok", JsonObjectText, NoJson)}

\* A few plans in the wrappings of section 6: fenced, fenced without a
\* language, embedded in prose.
WrappedContents ==
    {Fence \o "json\n" \o JsonObjectText \o "\n" \o Fence,
     Fence \o "\n" \o JsonObjectText \o "\n" \o Fence,
     "Here is the plan: " \o JsonObjectText \o " Let me know.",
     "Use {braces} " \o JsonObjectText}

FewPlans ==
    {PlanJson(TRUE, <<WithPayload("add", "cache", <<"Redis Cache", "redis", "database", "cfg-redis">>)>>,
              TRUE, <<Edge("api", "cache", "Cache Lookups")>>),
     PlanJson(TRUE, <<WithPayload("remove", "api", <<Undefined, Undefined, Undefined, Undefined>>)>>,
              FALSE, <<>>),
     PlanJson(TRUE, <<WithPayload("add", "cache", <<"Admin Console", Undefined, "other", Undefined>>),
                      WithPayload("modify", "api", <<Undefined, Undefined, Undefined, Undefined>>)>>,
              FALSE, <<>>)}

WrappedResponses ==
    {EditResponse("ok", c, j) : c \in WrappedContents, j \in FewPlans}

EditResponses == PlanResponses \cup FailedEditResponses \cup WrappedResponses

SessionEditResponses ==
    {EditResponse("ok", JsonObjectText, j) : j \in FewPlans}
    \cup {EditResponse("ok", "Here is the plan: " \o JsonObjectText \o " Let me know.",
                       PlanJson(TRUE, <<WithPayload("remove", "api",
                                           <<Undefined, Undefined, Undefined, Undefined>>)>>,
                                FALSE, <<>>))}
    \cup {EditResponse("http_error", "", NoJson)}

\* Date.now() while modification i is processed: non-decreasing, and read
\* only by an `add` without nodeId.
needsClock(mod) == mod.action = "add" /\ Falsy(mod.nodeId)

ClockReadings(modifications) ==
    {times \in [1..Len(modifications) -> 1..MaxClock] :
        /\ \A i \in 1..Len(modifications) :
              ~needsClock(modifications[i]) => times[i] = 1
        /\ \A i, j \in 1..Len(modifications) :
              (i < j /\ needsClock(modifications[i]) /\ needsClock(modifications[j]))
                  => times[i] <= times[j]}

\* The messages typed in a session.
SessionUtterances == {"Build a web app with a database", "add a cache", "hello"}

\* The ways the classifier's model call ends.
IntentOutcome(kind, intentType, intent, confidence) ==
    [kind |-> kind, intentType |-> intentType, intent |-> intent,
     confidence |-> confidence, explanation |-> "model"]

FailedIntentOutcomes ==
    {IntentOutcome(k, "undefined", Undefined, 0) :
        k \in {"network_error", "http_error", "empty_content", "malformed_json", "json_null"}}

LabelledIntentOutcomes ==
    {IntentOutcome("json", "string", l, c) :
        l \in {"GENERATE_ARCHITECTURE", "modify-architecture", "Modify Architecture",
               "ask_question", "EXPLAIN_COMPONENT", "general chat",
               "delete_architecture", "constructor", ""},
        c \in {0, 27, 45}}
    \cup {IntentOutcome("json", "undefined", Undefined, 27),
          IntentOutcome("json", "number", "5", 27),
          IntentOutcome("json", "object", "ask_question", 27)}

IntentOutcomes == FailedIntentOutcomes \cup LabelledIntentOutcomes

SessionIntentOutcomes ==
    {IntentOutcome("network_error", "undefined", Undefined, 0)}
    \cup {IntentOutcome("json", "string", l, 27) :
            l \in {"GENERATE_ARCHITECTURE", "modify-architecture", "ask_question",
                   "EXPLAIN_COMPONENT", "general chat", "constructor"}}

\* The ways the synthesis model call ends on the server.
\*   kind "graph": choices[0].message.content is `content`, in which the
\*   JSON object `graph` is written; "malformed_json": the content holds no
\*   JSON object; "network_error", "http_error": there is no content.
ModelAnswer(kind, content, graph) == [kind |-> kind, content |-> content, graph |-> graph]

NoGraph == [nodes |-> <<>>, edges |-> <<>>]

SynthesisOutcome(kind, graph) ==
    ModelAnswer(kind,
                IF kind = "graph" THEN JsonObjectText
                ELSE IF kind = "malformed_json" THEN "I am sorry, I cannot do that."
                ELSE "",
                graph)

FencedJson == Fence \o "json\n" \o JsonObjectText \o "\n" \o Fence

SynthesisOutcomes ==
    {SynthesisOutcome("graph", g) : g \in ModelGraphs}
    \cup {SynthesisOutcome(k, NoGraph) : k \in {"network_error", "http_error", "malformed_json"}}
    \cup {ModelAnswer("graph", FencedJson, g) : g \in ModelGraphs}

SessionSynthesisOutcomes ==
    {SynthesisOutcome("graph", g) : g \in {GraphApiDb, GraphWithUsers, GraphDangling}}
    \cup {SynthesisOutcome(k, NoGraph) : k \in {"http_error", "malformed_json"}}
    \cup {ModelAnswer("graph", FencedJson, GraphApiDb)}

\* No model call has answered.
NoAnswer == ModelAnswer("none", "", NoGraph)

(***************************************************************************)
(* The state after construction                                            *)
(***************************************************************************)

NoReply == [ok |-> FALSE, error |-> "null", id |-> "null", nodes |-> <<>>, edges |-> <<>>]

Invocation(pc, input, arch) ==
    [pc |-> pc, input |-> input, arch |-> arch, answer |-> NoAnswer, reply |-> NoReply]

NoEdit ==
    [status |-> "none", before |-> NullArchitecture, content |-> "", json |-> NoJson,
     applying |-> FALSE, nodes |-> <<>>, edges |-> <<>>]

NoCall ==
    [fn |-> "none", message |-> "", hasArchitecture |-> FALSE, apiKey |-> Undefined,
     outcome |-> IntentOutcome("network_error", "undefined", Undefined, 0),
     result |-> [intent |-> Undefined, confidence |-> 0, explanation |-> Undefined]]

RemoveAt(seq, i) == SubSeq(seq, 1, i - 1) \o SubSeq(seq, i + 1, Len(seq))

\* App.tsx lines 38-44 and ChatPanel.tsx lines 38-39: the state after
\* construction.
InitSession ==
    /\ architecture = NullArchitecture
    /\ isLoading = FALSE
    /\ error = "null"
    /\ inflight = <<>>
    /\ submits = 0
    /\ lastEdit = NoEdit

Init ==
    /\ apiKey \in {Undefined, "sk-client"}
    /\ serverApiKey \in {Undefined, "sk-server"}
    /\ InitSession
    /\ kv = <<>>
    /\ serverNow = 1
    /\ lastCall = NoCall
    /\ patternResults = <<>>

(***************************************************************************)
(* ChatPanel.tsx: handleSubmit and its routes                              *)
(***************************************************************************)

\* The handler runs to its end: it adds an assistant message (chat state,
\* not modelled) and calls neither onGenerate nor onArchitectureUpdate.
\* A handler that clears the architecture when it returns.
FinishAndClear(rest) ==
    /\ inflight' = rest
    /\ architecture' = NullArchitecture
    /\ UNCHANGED <<isLoading, error, lastEdit>>

Finish(rest) ==
    /\ inflight' = rest
    /\ UNCHANGED <<architecture, isLoading, error, lastEdit>>

\* The handler suspends at a fetch; the utterance is not read again.
Suspend(rest, inv, pc) ==
    /\ inflight' = Append(rest, [inv EXCEPT !.pc = pc, !.input = ""])
    /\ UNCHANGED <<architecture, lastEdit>>

\* Lines 93-126: the switch on intentResult.intent, each route run up to its
\* first await.  `rest` are the other suspended invocations.
Route(inv, intent, rest) ==
    CASE intent = MODIFY_ARCHITECTURE ->
            \* lines 99-106, then handleArchitectureModification lines 146-163
            IF inv.arch = NullArchitecture \/ Falsy(apiKey)
            THEN Finish(rest)
            ELSE Suspend(rest, inv, "editFetch") /\ UNCHANGED <<isLoading, error>>
      [] intent = ASK_QUESTION ->
            \* handleQuestion lines 427-436
            IF Falsy(apiKey)
            THEN Finish(rest)
            ELSE Suspend(rest, inv, "questionFetch") /\ UNCHANGED <<isLoading, error>>
      [] intent = EXPLAIN_COMPONENT ->
            \* handleComponentExplanation lines 479-499
            IF inv.arch = NullArchitecture \/ Len(inv.arch.nodes) = 0 \/ Falsy(apiKey)
            THEN Finish(rest)
            ELSE Suspend(rest, inv, "explainFetch") /\ UNCHANGED <<isLoading, error>>
      [] intent = GENERAL_CHAT ->
            \* handleGeneralChat lines 542-561
            Finish(rest)
      [] OTHER ->
            \* GENERATE_ARCHITECTURE and the default branch: onGenerate, that
            \* is App.tsx handleGenerate lines 46-51, is started, not awaited.
            /\ Suspend(rest, inv, "generateFetch")
            /\ isLoading' = TRUE
            /\ error' = "null"

\* Lines 68-88 (and, with no API key, on to the end: detectIntent then
\* resolves without a network call, so nothing can run in between).
handleSubmit(input) ==
    /\ submits < MaxSubmits
    /\ trim(input) # ""
    /\ ~isLoading
    /\ submits' = submits + 1
    /\ \E inv \in {Invocation("detectIntent", trim(input), architecture)} :
       IF Falsy(apiKey)
       THEN \E intentResult \in {detectIntent(inv.input, architecture # NullArchitecture,
                                               apiKey, NoCall.outcome)} :
               Route(inv, intentResult.intent, inflight)
       ELSE /\ inflight' = Append(inflight, inv)
            /\ UNCHANGED <<architecture, isLoading, error, lastEdit>>
    /\ UNCHANGED <<apiKey, serverApiKey, kv, serverNow, lastCall, patternResults>>

\* Lines 88-126: the classifier's model call has ended with one of `outcomes`.
detectIntentResolves(i, outcomes) ==
    /\ i \in 1..Len(inflight)
    /\ inflight[i].pc = "detectIntent"
    /\ \E outcome \in outcomes, inv \in {inflight[i]} :
       \E intentResult \in {detectIntent(inv.input, inv.arch # NullArchitecture,
                                          apiKey, outcome)} :
          Route(inv, intentResult.intent, RemoveAt(inflight, i))
    /\ UNCHANGED <<apiKey, serverApiKey, submits, kv, serverNow, lastCall, patternResults>>

\* Lines 220-424: the edit model's call has ended with one of `responses`;
\* `times` are the values Date.now() returns at line 302.
editFetchResolves(i, responses) ==
    /\ i \in 1..Len(inflight)
    /\ inflight[i].pc = "editFetch"
    /\ \E response \in responses :
       \E times \in ClockReadings(response.json.modifications) :
       \E inv \in {inflight[i]} :
       \E outcome \in {modificationOutcome(inv.arch, response, times)} :
          /\ lastEdit' = [status |-> IF outcome.threw THEN "failed" ELSE "published",
                          before |-> inv.arch, content |-> response.content,
                          json |-> response.json,
                          applying |-> outcome.applying,
                          nodes |-> outcome.nodes, edges |-> outcome.edges]
          /\ IF callsOnArchitectureUpdate(outcome)
             THEN \* lines 405-412: onArchitectureUpdate is App's setArchitecture
                  architecture' = [inv.arch EXCEPT !.nodes = outcome.nodes,
                                                   !.edges = outcome.edges]
             ELSE \* lines 420-423
                  UNCHANGED architecture
    /\ inflight' = RemoveAt(inflight, i)
    /\ UNCHANGED <<apiKey, serverApiKey, isLoading, error, submits, kv, serverNow,
                   lastCall, patternResults>>

\* Lines 459-475 and 522-538: the question / explanation call has ended.
chatFetchResolves(i, answered) ==
    /\ i \in 1..Len(inflight)
    /\ inflight[i].pc \in {"questionFetch", "explainFetch"}
    /\ answered \in BOOLEAN
    /\ Finish(RemoveAt(inflight, i))
    /\ UNCHANGED <<apiKey, serverApiKey, submits, kv, serverNow, lastCall, patternResults>>

\* Lines 679-683 and App.tsx lines 252-255 (also lines 179-186): the Clear
\* button, shown while an architecture exists.
onClear ==
    /\ architecture # NullArchitecture
    /\ architecture' = NullArchitecture
    /\ UNCHANGED <<apiKey, serverApiKey, isLoading, error, inflight, submits,
                   lastEdit, kv, serverNow, lastCall, patternResults>>

(***************************************************************************)
(* server/index.tsx: POST /api/generate-architecture; App.tsx handleGenerate*)
(***************************************************************************)

architectureId(timestamp) == "arch_" \o ToString(timestamp)

\* kv.set: last write wins.
kvSet(store, key, value) ==
    [k \in DOMAIN store \cup {key} |-> IF k = key THEN value ELSE store[k]]

\* index.tsx lines 213-227: GET /api/architecture/:id answers the stored
\* graph, or 404 when kv.get finds nothing.
getArchitecture(store, id) ==
    IF id \in DOMAIN store
    THEN [status |-> 200, nodes |-> store[id].nodes, edges |-> store[id].edges]
    ELSE [status |-> 404, nodes |-> <<>>, edges |-> <<>>]

\* A handler that answers without having persisted the graph.
respondedUnstored(store, timestamp, graph) ==
    [kv |-> store,
     reply |-> [ok |-> TRUE, error |-> "null", id |-> architectureId(timestamp),
                nodes |-> graph.nodes, edges |-> graph.edges]]

\* index.tsx lines 185-205: the id is built from the timestamp, kv.set is
\* awaited, and only then is the response built; content.nodes and
\* content.edges go into both as they came.
storedThenResponded(store, timestamp, graph) ==
    [kv |-> kvSet(store, architectureId(timestamp), graph),
     reply |-> [ok |-> TRUE, error |-> "null", id |-> architectureId(timestamp),
                nodes |-> graph.nodes, edges |-> graph.edges]]

\* index.tsx lines 29-210, for the request of invocation i; `outcome` is how
\* the call to the synthesis model ends and `timestamp` what Date.now()
\* returns at line 186.
generateArchitecture(i, outcomes) ==
    /\ i \in 1..Len(inflight)
    /\ inflight[i].pc = "generateFetch"
    /\ \E outcome \in outcomes, timestamp \in serverNow..MaxClock :
       IF Falsy(serverApiKey)
       THEN \* lines 38-42
            /\ inflight' = [inflight EXCEPT ![i].pc = "generateReply",
                               ![i].reply = [NoReply EXCEPT !.error = "OpenAI API key not configured"]]
            /\ UNCHANGED <<kv, serverNow>>
       ELSE IF outcome.kind = "http_error"
       THEN \* lines 171-175
            /\ inflight' = [inflight EXCEPT ![i].pc = "generateReply",
                               ![i].answer = outcome,
                               ![i].reply = [NoReply EXCEPT !.error = "Failed to generate architecture from AI service"]]
            /\ UNCHANGED <<kv, serverNow>>
       ELSE IF outcome.kind # "graph" \/ ~jsonParses(outcome.content)
       THEN \* lines 206-209: fetch rejected, or JSON.parse (line 178) threw on
            \* the content as the model wrote it
            /\ inflight' = [inflight EXCEPT ![i].pc = "generateReply",
                               ![i].answer = outcome,
                               ![i].reply = [NoReply EXCEPT !.error =
                                   "Failed to generate architecture: " \o
                                   (IF outcome.kind = "graph" THEN "malformed_json"
                                    ELSE outcome.kind)]]
            /\ UNCHANGED <<kv, serverNow>>
       ELSE \* lines 177-205
            \E done \in {storedThenResponded(kv, timestamp, outcome.graph)} :
               /\ serverNow' = timestamp
               /\ kv' = done.kv
               /\ inflight' = [inflight EXCEPT ![i].pc = "generateReply",
                                                ![i].answer = outcome,
                                                ![i].reply = done.reply]
    /\ UNCHANGED <<apiKey, serverApiKey, architecture, isLoading, error, submits,
                   lastEdit, lastCall, patternResults>>

\* A handler that stores the reply's body whatever its status.
handleGenerateStoresAnyReply(i) ==
    /\ i \in 1..Len(inflight)
    /\ inflight[i].pc = "generateReply"
    /\ architecture' = [id |-> inflight[i].reply.id, nodes |-> inflight[i].reply.nodes,
                        edges |-> inflight[i].reply.edges]
    /\ error' = inflight[i].reply.error
    /\ isLoading' = FALSE
    /\ inflight' = RemoveAt(inflight, i)
    /\ UNCHANGED <<apiKey, serverApiKey, submits, lastEdit, kv, serverNow, lastCall, patternResults>>

\* App.tsx lines 63-105: the endpoint's reply has arrived.
handleGenerateResolves(i) ==
    /\ i \in 1..Len(inflight)
    /\ inflight[i].pc = "generateReply"
    /\ LET reply == inflight[i].reply IN
       IF reply.ok
       THEN /\ architecture' = [id |-> reply.id, nodes |-> reply.nodes, edges |-> reply.edges]
            /\ UNCHANGED error
       ELSE /\ error' = reply.error
            /\ UNCHANGED architecture
    /\ isLoading' = FALSE
    /\ inflight' = RemoveAt(inflight, i)
    /\ UNCHANGED <<apiKey, serverApiKey, submits, lastEdit, kv, serverNow, lastCall, patternResults>>

\* A failure path that leaves the busy flag as it is.
handleGenerateFailsBusy(i) ==
    /\ i \in 1..Len(inflight)
    /\ inflight[i].pc = "generateFetch"
    /\ error' = "Failed to fetch"
    /\ inflight' = RemoveAt(inflight, i)
    /\ UNCHANGED <<apiKey, serverApiKey, architecture, isLoading, submits, lastEdit, kv,
                   serverNow, lastCall, patternResults>>

\* App.tsx lines 97-105: the fetch to the endpoint itself rejects.
handleGenerateFails(i) ==
    /\ i \in 1..Len(inflight)
    /\ inflight[i].pc = "generateFetch"
    /\ error' = "Failed to fetch"
    /\ isLoading' = FALSE
    /\ inflight' = RemoveAt(inflight, i)
    /\ UNCHANGED <<apiKey, serverApiKey, architecture, submits, lastEdit, kv, serverNow, lastCall, patternResults>>

(***************************************************************************)
(* Specifications                                                          *)
(***************************************************************************)

\* The editing session from construction: every handler, a few plans.
Next ==
    \/ \E input \in SessionUtterances : handleSubmit(input)
    \/ \E i \in 1..MaxSubmits : detectIntentResolves(i, SessionIntentOutcomes)
    \/ \E i \in 1..MaxSubmits : editFetchResolves(i, SessionEditResponses)
    \/ \E i \in 1..MaxSubmits, answered \in BOOLEAN : chatFetchResolves(i, answered)
    \/ onClear
    \/ \E i \in 1..MaxSubmits : generateArchitecture(i, SessionSynthesisOutcomes)
    \/ \E i \in 1..MaxSubmits : handleGenerateResolves(i)
    \/ \E i \in 1..MaxSubmits : handleGenerateFails(i)

Spec == Init /\ [][Next]_vars

\* The same session when the network call of every generation returns: the
\* endpoint answers a pending request (or the fetch rejects), and the
\* continuation of handleGenerate after its await then runs.
FairSpec ==
    /\ Spec
    /\ WF_vars(\E i \in 1..MaxSubmits :
                  generateArchitecture(i, SessionSynthesisOutcomes) \/ handleGenerateFails(i))
    /\ WF_vars(\E i \in 1..MaxSubmits : handleGenerateResolves(i))

(***************************************************************************)
(* One edit on a loaded architecture, every plan within the bounds         *)
(***************************************************************************)

\* The architectures a generation leaves in App state: handleGenerate stores
\* the endpoint's reply, which carries the model's graph as it came.
LoadedArchitectures ==
    {[id |-> architectureId(1), nodes |-> g.nodes, edges |-> g.edges] : g \in ModelGraphs}

\* A session in which one generation has completed and one "modify"
\* utterance has been routed to handleArchitectureModification, which is
\* suspended at its fetch (ChatPanel.tsx line 163).
InitEdit ==
    /\ apiKey = "sk-client"
    /\ serverApiKey = "sk-server"
    /\ architecture \in LoadedArchitectures
    /\ isLoading = FALSE
    /\ error = "null"
    /\ inflight = <<Invocation("editFetch", "", architecture)>>
    /\ submits = MaxSubmits
    /\ lastEdit = NoEdit
    /\ kv = kvSet(<<>>, architecture.id,
                  [nodes |-> architecture.nodes, edges |-> architecture.edges])
    /\ serverNow = 1
    /\ lastCall = NoCall
    /\ patternResults = <<>>

NextEdit ==
    \/ editFetchResolves(1, EditResponses)
    \/ onClear

SpecEdit == InitEdit /\ [][NextEdit]_vars

(***************************************************************************)
(* The classifier called directly                                          *)
(***************************************************************************)

\* Direct calls of detectIntentWithPatterns recorded in one behaviour.
MaxCalls == 2

\* detectIntent(message, hasArchitecture, apiKey) is called; with a key
\* configured the model call ends with `outcome`, without one no call is made.
\* One call is recorded per behaviour: a call reads nothing an earlier call
\* wrote.
callDetectIntent(message, hasArchitecture, outcome) ==
    /\ lastCall = NoCall
    /\ lastCall' =
          [fn |-> "detectIntent", message |-> message,
           hasArchitecture |-> hasArchitecture, apiKey |-> apiKey,
           outcome |-> IF Falsy(apiKey) THEN NoCall.outcome ELSE outcome,
           result |-> detectIntent(message, hasArchitecture, apiKey, outcome)]
    /\ UNCHANGED <<apiKey, serverApiKey, architecture, isLoading, error, inflight,
                   submits, lastEdit, kv, serverNow, patternResults>>

\* detectIntentWithPatterns(message, hasArchitecture) is called.
callDetectIntentWithPatterns(message, hasArchitecture) ==
    /\ Len(patternResults) < MaxCalls
    /\ patternResults' =
          Append(patternResults,
                 [message |-> message, hasArchitecture |-> hasArchitecture,
                  architectureLoaded |-> architecture # NullArchitecture,
                  scores |-> patternScores[message, hasArchitecture],
                  result |-> detectIntentWithPatterns(message, hasArchitecture)])
    /\ UNCHANGED <<apiKey, serverApiKey, architecture, isLoading, error, inflight,
                   submits, lastEdit, kv, serverNow, lastCall>>

\* The classifier may be called before the first generation or with an
\* architecture loaded.
InitClassifier ==
    /\ apiKey \in {Undefined, "sk-client"}
    /\ serverApiKey = "sk-server"
    /\ architecture \in
          {NullArchitecture,
           [id |-> architectureId(1), nodes |-> GraphApiDb.nodes, edges |-> GraphApiDb.edges]}
    /\ isLoading = FALSE
    /\ error = "null"
    /\ inflight = <<>>
    /\ submits = 0
    /\ lastEdit = NoEdit
    /\ kv = IF architecture = NullArchitecture THEN <<>>
            ELSE kvSet(<<>>, architecture.id,
                       [nodes |-> architecture.nodes, edges |-> architecture.edges])
    /\ serverNow = 1
    /\ lastCall = NoCall
    /\ patternResults = <<>>

\* detectIntent over every outcome of the model call.
NextClassifier ==
    \/ \E message \in Utterances, hasArchitecture \in BOOLEAN, outcome \in IntentOutcomes :
          callDetectIntent(message, hasArchitecture, outcome)
    \/ onClear

SpecClassifier == InitClassifier /\ [][NextClassifier]_vars

\* detectIntentWithPatterns called repeatedly, between other calls and
\* changes of the application's state.
NextPatterns ==
    \/ \E message \in Utterances, hasArchitecture \in BOOLEAN :
          callDetectIntentWithPatterns(message, hasArchitecture)
    \/ \E message \in SessionUtterances, hasArchitecture \in BOOLEAN,
          outcome \in SessionIntentOutcomes :
          callDetectIntent(message, hasArchitecture, outcome)
    \/ onClear

SpecPatterns == InitClassifier /\ [][NextPatterns]_vars

\* A session of edits, one after the other or overlapping: each utterance is
\* classified as a modify request and its edit model call ends with one of
\* SequenceEditResponses.  The session starts after a generation that loaded
\* a graph in which every edge joins two of its nodes.
SequenceModifications ==
    {WithPayload("add", "api", <<"Redis Cache", "redis", "database", "cfg-redis">>),
     WithPayload("add", "cache", <<"Redis Cache", "redis", "database", "cfg-redis">>),
     WithPayload("add", "cache", <<"Admin Console", Undefined, "other", Undefined>>),
     WithPayload("add", Undefined, <<"Redis Cache", "redis", "database", "cfg-redis">>),
     WithPayload("remove", "api", <<Undefined, Undefined, Undefined, Undefined>>),
     WithPayload("remove", "cache", <<Undefined, Undefined, Undefined, Undefined>>),
     WithPayload("modify", "api", <<"Redis Cache", "redis", "database", "cfg-redis">>)}

SequenceEditResponses ==
    {EditResponse("ok", JsonObjectText, PlanJson(TRUE, mods, TRUE, newEdges)) :
        mods \in SeqUpTo(SequenceModifications, 1),
        newEdges \in SeqUpTo(CandidateEdges, 1)}
    \cup {EditResponse("http_error", "", NoJson)}

InitEdits ==
    /\ apiKey = "sk-client"
    /\ serverApiKey = "sk-server"
    /\ architecture \in
          {[id |-> architectureId(1), nodes |-> g.nodes, edges |-> g.edges] :
              g \in {GraphApiDb, GraphChain, GraphWithUsers}}
    /\ isLoading = FALSE
    /\ error = "null"
    /\ inflight = <<>>
    /\ submits = 0
    /\ lastEdit = NoEdit
    /\ kv = kvSet(<<>>, architecture.id,
                  [nodes |-> architecture.nodes, edges |-> architecture.edges])
    /\ serverNow = 1
    /\ lastCall = NoCall
    /\ patternResults = <<>>

NextEdits ==
    \/ handleSubmit("add a cache")
    \/ \E i \in 1..MaxSubmits :
          detectIntentResolves(i, {IntentOutcome("json", "string", MODIFY_ARCHITECTURE, 27)})
    \/ \E i \in 1..MaxSubmits : editFetchResolves(i, SequenceEditResponses)

SpecEdits == InitEdits /\ [][NextEdits]_vars

(***************************************************************************)
(* Properties                                                              *)
(***************************************************************************)

\* C1: the graph an edit hands to onArchitectureUpdate has no dangling edge:
\* the source and the target of each of its edges are ids of its nodes,
\* whatever the current graph and the plan were.
EditedGraphHasNoDanglingEdge ==
    lastEdit.status = "published" =>
        \A k \in 1..Len(lastEdit.edges) :
            /\ lastEdit.edges[k].source \in NodeIdsOf(lastEdit.nodes)
            /\ lastEdit.edges[k].target \in NodeIdsOf(lastEdit.nodes)

\* C2: the graph an edit returns has no human-actor node: no node whose type,
\* label or product contains, in any letter case, one of user, scientist,
\* developer, admin; and none of its edges touches a node of the graph before
\* that the final pass removes.
EditedGraphHasNoHumanActor ==
    LET lexicon == {"user", "scientist", "developer", "admin"}
        names(n) == {n.type, n.label, n.product}
        humanActor(n) ==
            \E f \in names(n), w \in lexicon : ~Falsy(f) /\ includes(toLowerCase(f), w)
        dropped == {lastEdit.before.nodes[k].id : k \in
                       {k \in 1..Len(lastEdit.before.nodes) :
                           isUserNode(lastEdit.before.nodes[k])}}
    IN lastEdit.status = "published" =>
          /\ \A k \in 1..Len(lastEdit.nodes) : ~humanActor(lastEdit.nodes[k])
          /\ \A k \in 1..Len(lastEdit.edges) :
                /\ lastEdit.edges[k].source \notin dropped
                /\ lastEdit.edges[k].target \notin dropped

\* C3: the graph synthesize stores and the graph it returns contain no node
\* whose type, label or product matches the disallowed-actor lexicon, so each
\* such node of the model's output has been dropped.
SynthesizedGraphHasNoHumanActor ==
    LET lexicon == {"user", "scientist", "developer", "admin"}
        names(n) == {n.type, n.label, n.product}
        humanActor(n) ==
            \E f \in names(n), w \in lexicon : ~Falsy(f) /\ includes(toLowerCase(f), w)
        clean(nodes) == \A k \in 1..Len(nodes) : ~humanActor(nodes[k])
    IN /\ \A key \in DOMAIN kv : clean(kv[key].nodes)
       /\ \A i \in 1..Len(inflight) : inflight[i].reply.ok => clean(inflight[i].reply.nodes)

\* C4: the graph synthesize persists and the graph it returns contain no edge
\* whose source or target is not the id of one of the graph's nodes, so each
\* such edge of the model's response has been dropped.
SynthesizedGraphHasNoDanglingEdge ==
    LET closed(g) ==
            \A k \in 1..Len(g.edges) :
                /\ g.edges[k].source \in NodeIdsOf(g.nodes)
                /\ g.edges[k].target \in NodeIdsOf(g.nodes)
    IN /\ \A key \in DOMAIN kv : closed(kv[key])
       /\ \A i \in 1..Len(inflight) : inflight[i].reply.ok => closed(inflight[i].reply)

\* C5: an edit is all-or-nothing: a step in which an edit ends in failure
\* (the upstream call failed, no plan could be read from the response, or a
\* modification raised while the plan was being applied) leaves the
\* application's architecture exactly as it was.
FailedEditPublishesNothing ==
    [][((\E i \in 1..Len(inflight) :
            inflight[i].pc = "editFetch" /\ inflight' = RemoveAt(inflight, i))
        /\ (lastEdit'.status = "failed" \/ lastEdit'.json = NoJson))
       => architecture' = architecture]_vars

\* C5, the case reached: an edit failed after it had changed its working
\* copy of the nodes, and the architecture is still the one it started from.
FailedEditAfterPartialApplication ==
    /\ lastEdit.status = "failed"
    /\ lastEdit.applying
    /\ lastEdit.nodes # lastEdit.before.nodes
    /\ architecture = lastEdit.before

\* C6: after an edit whose plan removes node B and does not add B again
\* later, the returned graph has no node with id B and no edge whose source or
\* target is B, among the original edges and among the plan's newEdges.
RemoveCascades ==
    LET mods == lastEdit.json.modifications
        removed == {mods[i].nodeId : i \in
                       {i \in 1..Len(mods) :
                           /\ mods[i].action = "remove"
                           /\ \A j \in (i + 1)..Len(mods) :
                                 ~(mods[j].action = "add" /\ mods[j].nodeId = mods[i].nodeId)}}
    IN lastEdit.status = "published" =>
          /\ \A k \in 1..Len(lastEdit.nodes) : lastEdit.nodes[k].id \notin removed
          /\ \A k \in 1..Len(lastEdit.edges) :
                /\ lastEdit.edges[k].source \notin removed
                /\ lastEdit.edges[k].target \notin removed

\* C6, the case reached: on api -> cache -> db the plan removes cache and
\* proposes the new edge api -> cache; the result is {api, db} with no edge.
RemovedNodeWithIncidentEdges ==
    /\ lastEdit.status = "published"
    /\ lastEdit.before.nodes = GraphChain.nodes
    /\ lastEdit.before.edges = GraphChain.edges
    /\ Len(lastEdit.json.modifications) = 1
    /\ lastEdit.json.modifications[1].action = "remove"
    /\ lastEdit.json.modifications[1].nodeId = "cache"
    /\ lastEdit.json.newEdges = <<Edge("api", "cache", "Cache Lookups")>>
    /\ lastEdit.nodes = <<nodeApi, nodeDb>>
    /\ lastEdit.edges = <<>>

\* C7: at most one generate or edit request is outstanding in a session.
AtMostOneRequestOutstanding ==
    Cardinality({i \in 1..Len(inflight) :
                    inflight[i].pc \in {"editFetch", "generateFetch", "generateReply"}}) <= 1

\* C8: detectIntent always resolves to one of the five intents, and when the
\* model call failed, answered with a label that is none of the five, or was
\* not made for want of a key, its result is the result of
\* detectIntentWithPatterns for the same message and hasArchitecture.
ClassifierFallsBackOnFailure ==
    LET label == lastCall.outcome.intent
        recognized ==
            /\ lastCall.outcome.kind = "json"
            /\ replaceSeparators(toLowerCase(label)) \in Range(ChatIntent)
        failed == Falsy(lastCall.apiKey) \/ ~recognized
    IN lastCall.fn = "detectIntent" =>
          /\ lastCall.result.intent \in Range(ChatIntent)
          /\ failed => lastCall.result =
                          detectIntentWithPatterns(lastCall.message, lastCall.hasArchitecture)

\* C9: an edit leaves what its plan does not name: each original node no
\* modification names is in the returned graph unchanged, and so is each
\* original edge neither of whose endpoints a remove names.
EditKeepsWhatThePlanDoesNotName ==
    LET mods == lastEdit.json.modifications
        named == {mods[i].nodeId : i \in 1..Len(mods)}
        removed == {mods[i].nodeId : i \in {i \in 1..Len(mods) : mods[i].action = "remove"}}
    IN lastEdit.status = "published" =>
          /\ \A k \in 1..Len(lastEdit.before.nodes) :
                lastEdit.before.nodes[k].id \notin named
                    => lastEdit.before.nodes[k] \in Range(lastEdit.nodes)
          /\ \A k \in 1..Len(lastEdit.before.edges) :
                (/\ lastEdit.before.edges[k].source \notin removed
                 /\ lastEdit.before.edges[k].target \notin removed)
                    => lastEdit.before.edges[k] \in Range(lastEdit.edges)

EditedGraphHasDistinctNodeIds ==
    lastEdit.status = "published" =>
        \A j, k \in 1..Len(lastEdit.nodes) :
            lastEdit.nodes[j].id = lastEdit.nodes[k].id => j = k

\* C12: when synthesize fails (no credential on the server, the upstream
\* call is not 2xx, the model's content is not JSON) the endpoint answers
\* with an error that names a cause and writes nothing to the session store,
\* and the client, on receiving that answer, shows the cause and leaves its
\* architecture exactly as it was.
FailedSynthesisChangesNothing ==
    [][\A i \in 1..Len(inflight) :
          /\ (/\ inflight[i].pc = "generateFetch"
              /\ Len(inflight') = Len(inflight)
              /\ inflight'[i].pc = "generateReply"
              /\ ~inflight'[i].reply.ok)
                => /\ kv' = kv
                   /\ inflight'[i].reply.error # "null"
                   /\ architecture' = architecture
          /\ (/\ inflight[i].pc = "generateFetch"
              /\ Len(inflight') = Len(inflight)
              /\ inflight'[i].pc = "generateReply"
              /\ Falsy(serverApiKey))
                => ~inflight'[i].reply.ok
          /\ (/\ inflight[i].pc = "generateReply"
              /\ ~inflight[i].reply.ok
              /\ inflight' = RemoveAt(inflight, i))
                => /\ architecture' = architecture
                   /\ error' = inflight[i].reply.error
                   /\ kv' = kv]_vars

\* C12, the case reached: with an architecture loaded, a later synthesis has
\* failed on unparseable content; the architecture and the one stored graph
\* are still there.
FailedSynthesisAfterASuccess ==
    /\ error = "Failed to generate architecture: malformed_json"
    /\ architecture # NullArchitecture
    /\ architecture.id \in DOMAIN kv
    /\ Cardinality(DOMAIN kv) = 1

\* C13: a successful synthesis is persisted before it is returned: wherever
\* a returned id is held, in a response on its way to the client or in the
\* client's architecture, GET /api/architecture/:id answers with a stored
\* graph, not with not-found.
ReturnedIdIsStored ==
    /\ \A i \in 1..Len(inflight) :
          (inflight[i].pc = "generateReply" /\ inflight[i].reply.ok)
              => getArchitecture(kv, inflight[i].reply.id).status = 200
    /\ architecture # NullArchitecture
          => getArchitecture(kv, architecture.id).status = 200

\* C13, the case reached: a response carrying an id is on its way while
\* the client holds the id of an earlier synthesis.
ClientHoldsReturnedIds ==
    /\ architecture # NullArchitecture
    /\ \E i \in 1..Len(inflight) :
          /\ inflight[i].pc = "generateReply"
          /\ inflight[i].reply.ok
          /\ getArchitecture(kv, inflight[i].reply.id).nodes = inflight[i].reply.nodes

\* C14: a modify overwrites only the fields its payload carries: for a plan
\* that is one modify of an existing node the edit succeeds, and in the
\* returned graph each of the node's label, product, type and config is the
\* payload's value where the payload has one and the prior value where it
\* has none.
ModifyOverwritesOnlyPresentFields ==
    LET mods == lastEdit.json.modifications
        mod == mods[1]
        given(new, old) == IF new = Undefined THEN old ELSE new
    IN (/\ lastEdit.applying
        /\ Len(mods) = 1
        /\ mod.action = "modify"
        /\ mod.nodeId \in NodeIdsOf(lastEdit.before.nodes))
          => /\ lastEdit.status = "published"
             /\ \A k \in 1..Len(lastEdit.before.nodes) :
                   LET old == lastEdit.before.nodes[k] IN
                   old.id = mod.nodeId =>
                      \E j \in 1..Len(lastEdit.nodes) :
                         /\ lastEdit.nodes[j].id = old.id
                         /\ lastEdit.nodes[j].label = given(mod.label, old.label)
                         /\ lastEdit.nodes[j].product = given(mod.product, old.product)
                         /\ lastEdit.nodes[j].type = given(mod.type, old.type)
                         /\ lastEdit.nodes[j].config = given(mod.config, old.config)

\* C15: when the message hits no vocabulary entry and has no question mark,
\* so that every score is zero, detectIntentWithPatterns returns ask_question
\* if an architecture exists and generate_architecture otherwise.
AllZeroScoresDefault ==
    \A k \in 1..Len(patternResults) :
        LET call == patternResults[k]
            lowerMessage == toLowerCase(call.message)
        IN (/\ \A i \in 1..Len(ChatIntent) : patternHits(lowerMessage, ChatIntent[i]) = 0
            /\ ~includes(lowerMessage, "?"))
              => call.result.intent =
                    IF call.hasArchitecture THEN ASK_QUESTION ELSE GENERATE_ARCHITECTURE

\* C16: identifiers are immutable under edit: the graph a successful edit
\* publishes has the id of the graph the edit started from, and the nodes
\* that were there before and were not removed (by a remove of the plan or
\* by the final pass) are there, in their order, each under its old id.
EditKeepsIdentifiers ==
    [][\A i \in 1..Len(inflight) :
          (/\ inflight[i].pc = "editFetch"
           /\ inflight' = RemoveAt(inflight, i)
           /\ lastEdit'.status = "published")
             => LET mods == lastEdit'.json.modifications
                    removed == {mods[k].nodeId : k \in
                                   {k \in 1..Len(mods) : mods[k].action = "remove"}}
                    survives(n) == n.id \notin removed /\ ~isUserNode(n)
                    kept == SelectSeq(inflight[i].arch.nodes, survives)
                IN /\ architecture'.id = inflight[i].arch.id
                   /\ Len(lastEdit'.nodes) >= Len(kept)
                   /\ \A k \in 1..Len(kept) : lastEdit'.nodes[k].id = kept[k].id]_vars

\* C16, the case reached: a published edit has modified a node that was
\* there before.
PublishedEditModifiedANode ==
    /\ lastEdit.status = "published"
    /\ architecture.id = lastEdit.before.id
    /\ \E k \in 1..Len(lastEdit.nodes) :
          /\ lastEdit.nodes[k].data # <<>>
          /\ lastEdit.nodes[k].id \in NodeIdsOf(lastEdit.before.nodes)

\* C17: every successful synthesis gets a fresh id: two successful
\* generate-architecture requests never receive the same id, whether their
\* responses are both on their way or one of them has already been taken by
\* the client, so no synthesis overwrites the stored graph of an earlier one.
SynthesisIdsAreFresh ==
    /\ \A i, j \in 1..Len(inflight) :
          (/\ i # j
           /\ inflight[i].pc = "generateReply" /\ inflight[i].reply.ok
           /\ inflight[j].pc = "generateReply" /\ inflight[j].reply.ok)
              => inflight[i].reply.id # inflight[j].reply.id
    /\ \A i \in 1..Len(inflight) :
          (inflight[i].pc = "generateReply" /\ inflight[i].reply.ok)
              => inflight[i].reply.id # architecture.id

\* C18: newEdges are applied after all node modifications and checked
\* against the nodes then present: in the published graph a candidate edge
\* is present when both its endpoints are nodes of that graph (a node the
\* same plan added included), a candidate with an endpoint that is no node
\* of it (removed by the plan, or unknown) has not been added, and a dropped
\* candidate does not fail the edit: a plan without a modify is always
\* published.
NewEdgesFollowNodeModifications ==
    LET plan == lastEdit.json
        ids == NodeIdsOf(lastEdit.nodes)
        made(e) == Edge(e.source, e.target, Or(e.label, ""))
    IN /\ (lastEdit.status = "published" /\ plan.hasNewEdges)
             => \A k \in 1..Len(plan.newEdges) :
                   LET e == plan.newEdges[k] IN
                   IF e.source \in ids /\ e.target \in ids
                   THEN made(e) \in Range(lastEdit.edges)
                   ELSE made(e) \in Range(lastEdit.edges)
                           => made(e) \in Range(lastEdit.before.edges)
       /\ (/\ lastEdit.applying
           /\ \A k \in 1..Len(plan.modifications) : plan.modifications[k].action # "modify")
             => lastEdit.status = "published"

\* C18, the case reached: the plan adds cache and proposes api -> cache and
\* api -> ghost; the first is in the published graph and the second is not.
EdgeToAddedNodeKeptAndUnknownDropped ==
    /\ lastEdit.status = "published"
    /\ lastEdit.before.nodes = GraphApiDb.nodes
    /\ lastEdit.before.edges = GraphApiDb.edges
    /\ Len(lastEdit.json.modifications) = 1
    /\ lastEdit.json.modifications[1].action = "add"
    /\ lastEdit.json.newEdges =
          <<Edge("api", "cache", "Cache Lookups"), Edge("api", "ghost", "Events")>>
    /\ lastEdit.edges = <<Edge("api", "db", "SQL Queries"), Edge("api", "cache", "Cache Lookups")>>

\* C19: when the model call answers with a JSON object, a string label that
\* equals a closed-set tag once lower-cased and with '-' and whitespace
\* replaced by '_' is accepted as that tag; any other label, a missing label
\* and a label that is not a string make detectIntent return what
\* detectIntentWithPatterns returns for the same message and hasArchitecture.
OnlyTagVariantsAreAccepted ==
    LET outcome == lastCall.outcome
        variantOfTag ==
            /\ outcome.intentType = "string"
            /\ replaceSeparators(toLowerCase(outcome.intent)) \in Range(ChatIntent)
    IN (/\ lastCall.fn = "detectIntent"
        /\ ~Falsy(lastCall.apiKey)
        /\ outcome.kind = "json")
          => IF variantOfTag
             THEN lastCall.result.intent = replaceSeparators(toLowerCase(outcome.intent))
             ELSE lastCall.result =
                     detectIntentWithPatterns(lastCall.message, lastCall.hasArchitecture)

\* The score the fallback description gives `intent` for `message`, in tenths:
\* the entries of the intent's vocabulary found in the lower-cased message,
\* a tenth of that for explain and modify when there is no architecture, and
\* the bonus for ask-question when the message has a question mark.
describedScore(message, hasArchitecture, intent) ==
    LET lower == toLowerCase(message)
        vocabulary == INTENT_PATTERNS[intent]
        occursAt(p, k) == k + Len(p) - 1 <= Len(lower) /\ SubSeq(lower, k, k + Len(p) - 1) = p
        occurs(p) == \E k \in 1..Len(lower) : occursAt(p, k)
        found == Cardinality({i \in 1..Len(vocabulary) : occurs(vocabulary[i])})
        counted == IF ~hasArchitecture /\ intent \in {EXPLAIN_COMPONENT, MODIFY_ARCHITECTURE}
                   THEN found
                   ELSE 10 * found
    IN IF intent = ASK_QUESTION /\ occurs("?") THEN counted + 20 ELSE counted

describedScores ==
    [message \in Utterances, hasArchitecture \in BOOLEAN |->
        [intent \in Range(ChatIntent) |-> describedScore(message, hasArchitecture, intent)]]

\* C20: in every call of detectIntentWithPatterns the score of each intent is
\* the number of its vocabulary entries that are substrings of the
\* lower-cased message, times 0.1 for explain and modify exactly when
\* hasArchitecture is false, plus 2 for ask-question exactly when the
\* message contains a question mark.
FallbackScoresAreAsDescribed ==
    \A k \in 1..Len(patternResults) :
        patternResults[k].scores =
            describedScores[patternResults[k].message, patternResults[k].hasArchitecture]

\* C20, the cases reached: a question scored without an architecture (three
\* entries found and the bonus), and an edit request scored without one (two
\* entries found, a tenth each).
QuestionAndDiscountedEditScored ==
    \E i, j \in 1..Len(patternResults) :
        /\ patternResults[i].message = "what is Azure?"
        /\ patternResults[i].scores[ASK_QUESTION] = 50
        /\ patternResults[i].scores[GENERATE_ARCHITECTURE] = 0
        /\ patternResults[j].message = "add a cache"
        /\ ~patternResults[j].hasArchitecture
        /\ patternResults[j].scores[MODIFY_ARCHITECTURE] = 2

\* C21: the intent detectIntentWithPatterns returns has the maximum of the
\* five scores, and no intent before it in the order generate, ask-question,
\* explain-component, modify, general-chat has that maximum.
FallbackPicksFirstMaximum ==
    \A k \in 1..Len(patternResults) :
        LET scores == patternResults[k].scores
            chosen == patternResults[k].result.intent
        IN \E i \in 1..Len(ChatIntent) :
              /\ ChatIntent[i] = chosen
              /\ \A j \in 1..Len(ChatIntent) : scores[ChatIntent[j]] <= scores[chosen]
              /\ \A j \in 1..(i - 1) : scores[ChatIntent[j]] < scores[chosen]

\* C21, the case reached: ask-question and modify share the maximum, a
\* positive score, and ask-question, the earlier of the two, is returned.
TieBetweenAskAndModify ==
    \E k \in 1..Len(patternResults) :
        /\ patternResults[k].scores[ASK_QUESTION] = 10
        /\ patternResults[k].scores[MODIFY_ARCHITECTURE] = 10
        /\ patternResults[k].scores[GENERATE_ARCHITECTURE] = 0
        /\ patternResults[k].result.intent = ASK_QUESTION

\* C22: the confidence detectIntentWithPatterns returns is the top score
\* divided by the constant divisor and capped at 1.0, a top score of zero
\* included, and lies in [0,1].  (Scores are in tenths and confidences in
\* thirtieths, so a top score of t tenths divided by 3 is t thirtieths.)
FallbackConfidenceIsNormalizedTopScore ==
    \A k \in 1..Len(patternResults) :
        LET scores == patternResults[k].scores
            top == Max({scores[i] : i \in Range(ChatIntent)})
            confidence == patternResults[k].result.confidence
        IN /\ confidence = Min2((top * 30) \div (10 * ConfidenceDivisor), 30)
           /\ confidence \in 0..30

\* C23: every node of the published graph that an add created (its id, label,
\* product, type and config are those of no node of the graph before) has an
\* id, a label, a product, a type and a config, none of them undefined or
\* empty; it comes from an add of the plan whose nodeId it carries, or a
\* generated id when that add names none, and whose config it carries, or the
\* default config when that add has none.
AddedNodesAreFullyDescribed ==
    LET mods == lastEdit.json.modifications
        bare(n) == [n EXCEPT !.data = <<>>]
        created(n) == \A b \in Range(lastEdit.before.nodes) : bare(b) # bare(n)
    IN lastEdit.status = "published" =>
          \A n \in Range(lastEdit.nodes) :
              created(n) =>
                 /\ ~Falsy(n.id) /\ ~Falsy(n.label) /\ ~Falsy(n.product)
                 /\ ~Falsy(n.type) /\ ~Falsy(n.config)
                 /\ \E k \in 1..Len(mods) :
                       /\ mods[k].action = "add"
                       /\ IF Falsy(mods[k].nodeId)
                          THEN startsWith(n.id, "node-")
                          ELSE n.id = mods[k].nodeId
                       /\ n.config = IF Falsy(mods[k].config) THEN DefaultConfig
                                     ELSE mods[k].config

\* C23, the case reached: an add without nodeId and without any descriptive
\* field is published as a node with a generated id and every default.
AddWithoutAnyFieldPublished ==
    /\ lastEdit.status = "published"
    /\ Len(lastEdit.json.modifications) = 1
    /\ lastEdit.json.modifications[1].action = "add"
    /\ Falsy(lastEdit.json.modifications[1].nodeId)
    /\ Falsy(lastEdit.json.modifications[1].config)
    /\ Falsy(lastEdit.json.modifications[1].type)
    /\ \E n \in Range(lastEdit.nodes) :
          /\ startsWith(n.id, "node-")
          /\ n.label = "New Service"
          /\ n.type = "service"
          /\ n.config = DefaultConfig

\* The shapes of content a response may have around its JSON object: raw,
\* wrapped in code-fence markers (with or without a language), embedded in
\* prose.
ToleratedContents ==
    {JsonObjectText,
     Fence \o "json\n" \o JsonObjectText \o "\n" \o Fence,
     Fence \o "\n" \o JsonObjectText \o "\n" \o Fence,
     "Here is the plan: " \o JsonObjectText \o " Let me know."}

\* C24: synthesize and edit accept a model response whose JSON object is raw,
\* fenced or embedded in prose, and answer as for the raw object: the server
\* replies with the graph written in the content, and the editor reaches the
\* application of the plan written in it; a response without a JSON object
\* ends the operation with an error.
WrappedJsonIsAccepted ==
    /\ \A i \in 1..Len(inflight) :
          inflight[i].pc = "generateReply" =>
             /\ (inflight[i].answer.kind = "graph"
                    /\ inflight[i].answer.content \in ToleratedContents)
                  => /\ inflight[i].reply.ok
                     /\ inflight[i].reply.nodes = inflight[i].answer.graph.nodes
                     /\ inflight[i].reply.edges = inflight[i].answer.graph.edges
             /\ inflight[i].answer.kind = "malformed_json"
                  => ~inflight[i].reply.ok /\ inflight[i].reply.error # "null"
    /\ lastEdit.status # "none" =>
          /\ (lastEdit.content \in ToleratedContents /\ lastEdit.json.hasModifications)
                => lastEdit.applying
          /\ (lastEdit.content # "" /\ ~jsonParses(cleanJsonOf(lastEdit.content)))
                => lastEdit.status = "failed"

\* C25: modifications are applied in list order, each seeing the effect of
\* those before it.  For a plan of two modifications naming the same node X
\* whose application began: [add X, remove X] is published without X;
\* [remove X, add X] is published with the added X (here a cache, no human
\* actor) and with no edge at X other than the plan's new edges; and in
\* [add X, modify X] the edit is published and the node the add appended
\* carries what the modify wrote.
ModificationsSeeEarlierOnes ==
    LET mods == lastEdit.json.modifications
        X == mods[1].nodeId
        candidates == {Edge(e.source, e.target, Or(e.label, "")) :
                          e \in Range(lastEdit.json.newEdges)}
        last == lastEdit.nodes[Len(lastEdit.nodes)]
    IN (/\ lastEdit.applying
        /\ Len(mods) = 2
        /\ ~Falsy(X)
        /\ mods[2].nodeId = X)
          => /\ (mods[1].action = "add" /\ mods[2].action = "remove")
                  => /\ lastEdit.status = "published"
                     /\ X \notin NodeIdsOf(lastEdit.nodes)
             /\ (mods[1].action = "remove" /\ mods[2].action = "add"
                    /\ mods[2].label = "Redis Cache")
                  => /\ lastEdit.status = "published"
                     /\ \E n \in Range(lastEdit.nodes) :
                           n.id = X /\ n.label = "Redis Cache" /\ n.config = mods[2].config
                     /\ \A e \in Range(lastEdit.edges) :
                           (e.source = X \/ e.target = X) => e \in candidates
             /\ (mods[1].action = "add" /\ mods[2].action = "modify"
                    /\ mods[1].label = "Redis Cache")
                  => /\ lastEdit.status = "published"
                     /\ last.id = X
                     /\ last.config = mods[1].config
                     /\ last.data # <<>>

\* C26: edits preserve well-formedness: in a session that starts from a graph
\* in which the endpoints of every edge are nodes and then only edits it,
\* with any plans (adds, adds with an id in use, modifies, removes, new
\* edges, the final removal of human actors), the endpoints of every edge of
\* the architecture are nodes of the architecture after each edit.
EditsPreserveWellFormedness ==
    \A k \in 1..Len(architecture.edges) :
        /\ \E n \in 1..Len(architecture.nodes) :
              architecture.nodes[n].id = architecture.edges[k].source
        /\ \E n \in 1..Len(architecture.nodes) :
              architecture.nodes[n].id = architecture.edges[k].target

\* C26, the case reached: a third edit in a row has been published, on a
\* graph that earlier edits left with two nodes of one id.
ThirdEditOnGraphWithRepeatedId ==
    /\ submits = 3
    /\ inflight = <<>>
    /\ lastEdit.status = "published"
    /\ Len(lastEdit.before.nodes) > Cardinality(NodeIdsOf(lastEdit.before.nodes))
    /\ Len(architecture.edges) > 0

\* C27: the ask-question, explain-component and general-chat routes do not
\* touch the architecture: a step in which an utterance is routed to
\* handleQuestion or handleComponentExplanation, in which such a handler's
\* model call ends (answered or failed), or in which a handler returns
\* without a model call, leaves the architecture as it was, starts no
\* generation and no edit, and leaves the busy flag alone.
ChatRoutesLeaveTheArchitecture ==
    [][LET chatting(q) == {i \in 1..Len(q) : q[i].pc \in {"questionFetch", "explainFetch"}}
           changing(q) == {i \in 1..Len(q) :
                              q[i].pc \in {"generateFetch", "generateReply", "editFetch"}}
           routedToChat == Cardinality(chatting(inflight')) > Cardinality(chatting(inflight))
           chatEnded == \E i \in chatting(inflight) : inflight' = RemoveAt(inflight, i)
           returnedAtOnce ==
               \/ \E i \in 1..Len(inflight) :
                     inflight[i].pc = "detectIntent" /\ inflight' = RemoveAt(inflight, i)
               \/ submits' = submits + 1 /\ inflight' = inflight
       IN (routedToChat \/ chatEnded \/ returnedAtOnce)
             => /\ architecture' = architecture
                /\ Cardinality(changing(inflight')) = Cardinality(changing(inflight))
                /\ isLoading' = isLoading
                /\ lastEdit' = lastEdit
                /\ kv' = kv]_vars

\* C27, the case reached: with an architecture loaded, one utterance has been
\* routed to handleComponentExplanation and another to handleQuestion, and the
\* architecture is the one both saw.
ChatRoutesTakenOnLoadedArchitecture ==
    /\ architecture # NullArchitecture
    /\ \E i, j \in 1..Len(inflight) :
          /\ inflight[i].pc = "explainFetch"
          /\ inflight[j].pc = "questionFetch"
          /\ inflight[i].arch = architecture
          /\ inflight[j].arch = architecture

\* C28: the busy flag is always released: the step that starts a generation
\* sets isLoading, every step in which a generation's request has resolved
\* (the reply is a graph, the reply is an error, the fetch rejected) clears
\* it, and, the network call returning, a session that is busy becomes idle
\* again.
BusyFlagIsAlwaysReleased ==
    /\ [][LET pending(q) == {i \in 1..Len(q) : q[i].pc = "generateFetch"}
          IN /\ Cardinality(pending(inflight')) > Cardinality(pending(inflight))
                   => isLoading'
             /\ \A i \in 1..Len(inflight) :
                   (/\ inflight[i].pc \in {"generateFetch", "generateReply"}
                    /\ inflight' = RemoveAt(inflight, i))
                      => ~isLoading']_vars
    /\ (isLoading ~> ~isLoading)

\* C28, the case reached: one generation has succeeded and a later one has
\* failed, and the session is idle.
IdleAfterSuccessAndFailure ==
    /\ ~isLoading
    /\ inflight = <<>>
    /\ architecture # NullArchitecture
    /\ error # "null"

\* C29: a modify request with no architecture never reaches the editor: no
\* step taken while the architecture is null issues an edit model call, so
\* the architecture stays null; and no edit model call is outstanding for a
\* handler that has no architecture or no API key.
ModifyWithoutArchitectureIssuesNoEdit ==
    [][LET editing(q) == {i \in 1..Len(q) : q[i].pc = "editFetch"}
       IN /\ architecture = NullArchitecture
                => Cardinality(editing(inflight')) <= Cardinality(editing(inflight))
          /\ \A i \in editing(inflight') :
                inflight'[i].arch # NullArchitecture /\ ~Falsy(apiKey)]_vars

\* C30: a modify or remove whose nodeId is the id of no node of the live node
\* set (no node of the graph before, and no node an earlier add of the plan
\* created) is a no-op: the edit ends as it ends for the plan without that
\* modification, and publishes the same nodes and edges.  (Plans whose adds
\* all name their node, so that no id depends on the clock.)
UnknownNodeIdIsANoOp ==
    LET mods == lastEdit.json.modifications
        noOp(k) ==
            /\ mods[k].action \in {"modify", "remove"}
            /\ mods[k].nodeId \notin NodeIdsOf(lastEdit.before.nodes)
            /\ \A j \in 1..(k - 1) : mods[j].action = "add" => mods[j].nodeId # mods[k].nodeId
        without(k) ==
            modificationOutcome(lastEdit.before,
                EditResponse("ok", JsonObjectText,
                             [lastEdit.json EXCEPT !.modifications = RemoveAt(mods, k)]),
                [j \in 1..(Len(mods) - 1) |-> 1])
    IN (/\ lastEdit.applying
        /\ \A j \in 1..Len(mods) : ~needsClock(mods[j]))
          => \A k \in 1..Len(mods) :
                noOp(k) =>
                   /\ lastEdit.status = IF without(k).threw THEN "failed" ELSE "published"
                   /\ lastEdit.status = "published"
                         => /\ lastEdit.nodes = without(k).nodes
                            /\ lastEdit.edges = without(k).edges


====
